---- MODULE Spec2Model ----
(***************************************************************************)
(* Model of akgood/a2council_transcripts.                                  *)
(*                                                                         *)
(* src/parse_captions.py: get_speech_blocks is a single pass over a list   *)
(* of caption cues.  One step of the model is one iteration of its for     *)
(* loop (or the final return).  Python strings are modelled as sequences   *)
(* of one-character strings, so that strip, lower, split, startswith, the  *)
(* Levenshtein distance and the ordering of strings are computed, not      *)
(* assumed.  Timestamps are the strings webvtt hands out; calc_duration    *)
(* parses them.  preprocess is modelled read by read on the text of a      *)
(* file.                                                                   *)
(*                                                                         *)
(* src/enumerate_captions.py: parse_new_captions is one step per directory *)
(* entry, fetch_new_raw_captions one step per request, per listed VOD and  *)
(* per end-of-page test.                                                   *)
(*                                                                         *)
(* Each function has its own specification; the variables of the other     *)
(* functions stay at their idle values.                                    *)
(***************************************************************************)
EXTENDS Integers, Sequences, FiniteSets, TLC

\* Number of cues in the longest caption list explored.
MaxCues == 3

\* Number of lines in the longest caption file preprocess is given.
MaxLines == 3

\* Number of entries in the largest source directory parse_new_captions walks.
MaxFiles == 3

\* The server's VOD count reaches up to this many full pages.
MaxFullPages == 2

\* Number of VODs in the longest listing page explored.
MaxVodsPerPage == 2

----------------------------------------------------------------------------
(* Characters and strings *)

\* A string is a sequence of characters.  The alphabet is ASCII, the white
\* space of Unicode and the decimal digits of Unicode: a printable ASCII
\* character and "\t", "\n", "\f", "\r" stand for themselves, any other
\* character is written by its code point ("U+00A0").

\* The character U+0000 (CTN terminates caption text with it).
NUL == "NUL"

\* Python's ord(), on the characters that occur in the sample inputs.
Ord(c) ==
    CASE c = NUL  -> 0
      [] c = "\t" -> 9
      [] c = "\n" -> 10
      [] c = "\r" -> 13
      [] c = " "  -> 32
      [] c = ":"  -> 58
      [] c = ">"  -> 62
      [] c = "J"  -> 74
      [] c = "K"  -> 75
      [] c = "N"  -> 78
      [] c = "O"  -> 79
      [] c = "U"  -> 85
      [] c = "W"  -> 87
      [] c = "e"  -> 101
      [] c = "h"  -> 104
      [] c = "i"  -> 105
      [] c = "j"  -> 106
      [] c = "k"  -> 107
      [] c = "m"  -> 109
      [] c = "n"  -> 110
      [] c = "o"  -> 111
      [] c = "r"  -> 114
      [] c = "s"  -> 115
      [] c = "t"  -> 116
      [] c = "u"  -> 117
      [] c = "w"  -> 119
      [] c = "x"  -> 120
      [] c = "y"  -> 121

\* The capital letters of ASCII and their lower-case forms.
UpperLetters ==
    <<"A", "B", "C", "D", "E", "F", "G", "H", "I", "J", "K", "L", "M",
      "N", "O", "P", "Q", "R", "S", "T", "U", "V", "W", "X", "Y", "Z">>
LowerLetters ==
    <<"a", "b", "c", "d", "e", "f", "g", "h", "i", "j", "k", "l", "m",
      "n", "o", "p", "q", "r", "s", "t", "u", "v", "w", "x", "y", "z">>

\* str.lower() on one character of the alphabet: a capital letter gives its
\* lower-case form, every other character (digit, white space, punctuation,
\* lower-case letter) itself.
LowerChar(c) ==
    IF \E i \in 1..Len(UpperLetters) : UpperLetters[i] = c
    THEN LowerLetters[CHOOSE i \in 1..Len(UpperLetters) : UpperLetters[i] = c]
    ELSE c

\* str.lower()
Lower(s) == [i \in 1..Len(s) |-> LowerChar(s[i])]

\* The characters str.strip() removes when called without argument: those
\* with str.isspace(), namely U+0009..U+000D, U+001C..U+001F, U+0020, U+0085,
\* U+00A0, U+1680, U+2000..U+200A, U+2028, U+2029, U+202F, U+205F, U+3000.
Whitespace ==
    {"\t", "\n", "U+000B", "\f", "\r", "U+001C", "U+001D", "U+001E",
     "U+001F", " ", "U+0085", "U+00A0", "U+1680", "U+2000", "U+2001",
     "U+2002", "U+2003", "U+2004", "U+2005", "U+2006", "U+2007", "U+2008",
     "U+2009", "U+200A", "U+2028", "U+2029", "U+202F", "U+205F", "U+3000"}

\* The characters of the argument of caption.text.strip("\r\n \u0000").
NoiseChars == {"\r", "\n", " ", NUL}

RECURSIVE LStrip(_, _)
LStrip(s, chars) ==
    IF s # <<>> /\ Head(s) \in chars THEN LStrip(Tail(s), chars) ELSE s

RECURSIVE RStrip(_, _)
RStrip(s, chars) ==
    IF s # <<>> /\ s[Len(s)] \in chars
    THEN RStrip(SubSeq(s, 1, Len(s) - 1), chars)
    ELSE s

\* str.strip(chars)
Strip(s, chars) == RStrip(LStrip(s, chars), chars)

\* str.startswith(prefix)
StartsWith(s, prefix) ==
    Len(s) >= Len(prefix) /\ SubSeq(s, 1, Len(prefix)) = prefix

\* c in s, for a single character c
Contains(s, c) == \E i \in 1..Len(s) : s[i] = c

\* s.split(c)[0]: the text before the first c, or all of s when c is absent.
SplitFirst(s, c) ==
    IF Contains(s, c)
    THEN LET k == CHOOSE i \in 1..Len(s) :
                      s[i] = c /\ \A j \in 1..(i - 1) : s[j] # c
         IN SubSeq(s, 1, k - 1)
    ELSE s

\* Python's s < t on strings: lexicographic by code point.
RECURSIVE StrLess(_, _)
StrLess(s, t) ==
    IF t = <<>> THEN FALSE
    ELSE IF s = <<>> THEN TRUE
    ELSE IF Head(s) # Head(t) THEN Ord(Head(s)) < Ord(Head(t))
    ELSE StrLess(Tail(s), Tail(t))

----------------------------------------------------------------------------
(* Levenshtein distance (jellyfish.levenshtein_distance): unit-cost        *)
(* insertion, deletion and substitution, computed row by row.              *)

Min2(a, b) == IF a <= b THEN a ELSE b

\* The row of the distance table for one more character ch of the query;
\* row[j + 1] is the distance to the first j characters of t.
RECURSIVE LevFill(_, _, _, _)
LevFill(prev, ch, t, cur) ==
    IF Len(cur) = Len(t) + 1 THEN cur
    ELSE LET j == Len(cur)
             cost == IF ch = t[j] THEN 0 ELSE 1
         IN LevFill(prev, ch, t,
                Append(cur, Min2(Min2(prev[j + 1] + 1, cur[j] + 1),
                                 prev[j] + cost)))

RECURSIVE LevRows(_, _, _)
LevRows(s, t, prev) ==
    IF s = <<>> THEN prev
    ELSE LevRows(Tail(s), t, LevFill(prev, Head(s), t, <<prev[1] + 1>>))

levenshtein_distance(s, t) ==
    LevRows(s, t, [j \in 1..(Len(t) + 1) |-> j - 1])[Len(t) + 1]

----------------------------------------------------------------------------
(* Program constants and pure functions of parse_captions.py *)

UNKNOWN_SPEAKER == <<"U", "N", "K", "N", "O", "W", "N">>

\* Python's None (the initial start_time and end_time).
None == "None"

\* Block = namedtuple("Block", ["start", "end", "duration", "speaker", "speech"])
Block(start, end, dur, spk, speech) ==
    [start |-> start, end |-> end, duration |-> dur, speaker |-> spk,
     speech |-> speech]

\* datetime.time.fromisoformat on the sample timestamps, as seconds of the day.
TimeOfDay(ts) ==
    CASE ts = "00:00:00.000" -> 0
      [] ts = "00:00:02.000" -> 2
      [] ts = "00:00:03.000" -> 3
      [] ts = "00:00:06.000" -> 6

\* (end_time - start_time).total_seconds(); the sample timestamps are whole
\* seconds, so the float is exact.
calc_duration(start, end) == TimeOfDay(end) - TimeOfDay(start)

\* Python's (d1, c1) < (d2, c2) on (distance, candidate) tuples.
TupleLess(d1, c1, d2, c2) == d1 < d2 \/ (d1 = d2 /\ StrLess(c1, c2))

\* Variant: the first candidate, in list order, at the minimum distance.
get_closest_match_first(query, knowns) ==
    LET d == [i \in 1..Len(knowns) |->
                 levenshtein_distance(query, knowns[i])]
        k == CHOOSE i \in 1..Len(knowns) :
                 /\ \A j \in 1..Len(knowns) : d[i] <= d[j]
                 /\ \A j \in 1..(i - 1) : d[j] > d[i]
    IN knowns[k]

\* Variant: the last candidate of the list, whatever its distance.
get_closest_match_last(query, knowns) == knowns[Len(knowns)]

\* min((levenshtein_distance(query, candidate), candidate) for candidate in
\* knowns), second component: the least tuple in Python's tuple order.
get_closest_match(query, knowns) ==
    LET d == [i \in 1..Len(knowns) |->
                 levenshtein_distance(query, knowns[i])]
        k == CHOOSE i \in 1..Len(knowns) :
                 \A j \in 1..Len(knowns) :
                     ~TupleLess(d[j], knowns[j], d[i], knowns[i])
    IN knowns[k]

\* line = caption.text.strip("\r\n \u0000")
Normalize(text) == Strip(text, NoiseChars)

\* Variant: the label without lower().
RawLabel_nolower(line) ==
    Strip(SplitFirst(SubSeq(line, 3, Len(line)), ":"), Whitespace)

\* line[2:].split(":")[0].strip().lower()
RawLabel(line) ==
    Lower(Strip(SplitFirst(SubSeq(line, 3, Len(line)), ":"), Whitespace))

\* speaker_map = {s: s for s in known_speakers}
SeedMap(knowns) ==
    [s \in {knowns[i] : i \in 1..Len(knowns)} |-> s]

----------------------------------------------------------------------------
(* Sample inputs *)

S_smith == <<"s", "m", "i", "t", "h">>
S_jones == <<"j", "o", "n", "e", "s">>

\* Known-speaker lists, as main() builds them: the names of the speaker
\* file in file order, then UNKNOWN_SPEAKER.
KnownSpeakerLists ==
    { <<S_smith, S_jones, UNKNOWN_SPEAKER>>,
      <<S_jones, S_smith, UNKNOWN_SPEAKER>> }

\* ">> SMTH\f: ok\u0000" (a typo of smith in capitals, a form feed before the
\* colon, NUL-terminated)
T_smth == <<">", ">", " ", "S", "M", "T", "H", "\f", ":", " ", "o", "k", NUL>>
\* ">> Jones : yes"      (a known speaker, capitalised, blank before the colon)
T_Jones == <<">", ">", " ", "J", "o", "n", "e", "s", " ", ":", " ", "y", "e", "s">>
\* ">> x: no"            (as far from smith as from jones)
T_x == <<">", ">", " ", "x", ":", " ", "n", "o">>
\* ">> hi"               (a marker line without a colon)
T_anon == <<">", ">", " ", "h", "i">>
\* "there"
T_there == <<"t", "h", "e", "r", "e">>
\* "there\r\n"           (the same line once normalised)
T_there_crlf == <<"t", "h", "e", "r", "e", "\r", "\n">>
\* "\n"                  (empty once normalised)
T_blank == <<"\n">>

Texts == {T_smth, T_Jones, T_x, T_anon, T_there, T_there_crlf, T_blank}

\* (start, end) of the sample cues: two seconds, a pause of one second, three
\* seconds.  A caption list may use a window more than once (CTN shows two
\* lines at a time) and in any order.
Windows ==
    { <<"00:00:00.000", "00:00:02.000">>,
      <<"00:00:03.000", "00:00:06.000">> }

\* webvtt captions: start and end timestamps and the raw text.
Captions ==
    { [start |-> w[1], end |-> w[2], text |-> t] : w \in Windows, t \in Texts }

----------------------------------------------------------------------------
(* State of one call of get_speech_blocks *)

VARIABLES
    no_infer_speakers,  \* argument
    known_speakers,     \* argument
    captions,           \* the cues the for loop has consumed so far, in order
    speaker_map,        \* closure state of infer_speaker
    blocks,
    last_line,
    start_time,
    end_time,
    duration,
    current_speech,
    speaker,
    resolved,           \* log of the calls of infer_speaker
    pc,                 \* "loop" | "done"
    returned            \* the value returned: <<blocks, speaker_map>>

seg_vars == <<no_infer_speakers, known_speakers, captions, speaker_map,
              blocks, last_line, start_time, end_time, duration,
              current_speech, speaker, resolved, pc, returned>>

(* State of one call of preprocess *)
VARIABLES
    fp_text,            \* the text of the file webvtt_fp reads
    fp_pos,             \* the stream position of webvtt_fp (characters read)
    file_pos,
    pp_pc,              \* "idle" | "loop" | "done" | "raised"
    pp_out              \* the string returned

pp_vars == <<fp_text, fp_pos, file_pos, pp_pc, pp_out>>

(* State of one call of parse_new_captions *)
VARIABLES
    src_entries,        \* Path(srcdir).iterdir(): the entries, in its order
    existing,           \* names of the files in dstdir when the call began
    pn_next,            \* number of entries the for loop has consumed
    transcripts,        \* names of the files in dstdir
    written,            \* log of the files this call wrote, with their content
    warnings,           \* source names logged by logging.warning
    pn_pc               \* "idle" | "loop" | "done"

pn_vars == <<src_entries, existing, pn_next, transcripts, written, warnings, pn_pc>>

(* State of one call of fetch_new_raw_captions *)
VARIABLES
    initial_vods,       \* the argument known_vods
    known_vods,
    page,
    count,              \* body["meta"]["count"] as the server reports it
    body_vods,          \* body["vods"] still to be iterated
    requests,           \* the offsets of the listing requests made, in order
    retrieved,          \* log of the calls of retrieve_captions_for_vod
    f_pc                \* "idle" | "request" | "vods" | "done" | "raised"

f_vars == <<initial_vods, known_vods, page, count, body_vods, requests,
            retrieved, f_pc>>

vars == <<seg_vars, pp_vars, pn_vars, f_vars>>

\* No call of get_speech_blocks is in progress.
SegIdle ==
    /\ no_infer_speakers = FALSE
    /\ known_speakers = <<>>
    /\ captions = <<>>
    /\ speaker_map = <<>>
    /\ blocks = <<>>
    /\ last_line = <<>>
    /\ start_time = None
    /\ end_time = None
    /\ duration = 0
    /\ current_speech = <<>>
    /\ speaker = UNKNOWN_SPEAKER
    /\ resolved = <<>>
    /\ pc = "idle"
    /\ returned = None

\* No call of preprocess is in progress.
PreprocessIdle ==
    /\ fp_text = <<>>
    /\ fp_pos = 0
    /\ file_pos = 0
    /\ pp_pc = "idle"
    /\ pp_out = None

\* No call of parse_new_captions is in progress.
ParseNewIdle ==
    /\ src_entries = <<>>
    /\ existing = {}
    /\ pn_next = 0
    /\ transcripts = {}
    /\ written = <<>>
    /\ warnings = {}
    /\ pn_pc = "idle"

\* No call of fetch_new_raw_captions is in progress.
FetchIdle ==
    /\ initial_vods = {}
    /\ known_vods = {}
    /\ page = 0
    /\ count = 0
    /\ body_vods = <<>>
    /\ requests = <<>>
    /\ retrieved = <<>>
    /\ f_pc = "idle"

\* The arguments of a call.  Without inference the order of the list plays no
\* part, so one order is explored.
Arguments ==
    {<<FALSE, ks>> : ks \in KnownSpeakerLists}
        \cup {<<TRUE, <<S_smith, S_jones, UNKNOWN_SPEAKER>> >>}

Init ==
    /\ \E a \in Arguments :
           no_infer_speakers = a[1] /\ known_speakers = a[2]
    /\ captions = <<>>
    /\ speaker_map = SeedMap(known_speakers)
    /\ blocks = <<>>
    /\ last_line = <<>>
    /\ start_time = None
    /\ end_time = None
    /\ duration = 0
    /\ current_speech = <<>>
    /\ speaker = UNKNOWN_SPEAKER
    /\ resolved = <<>>
    /\ pc = "loop"
    /\ returned = None
    /\ PreprocessIdle
    /\ ParseNewIdle
    /\ FetchIdle

\* Variant: infer_speaker without the no_infer_speakers test.
infer_speaker_always(no_infer, map, knowns, query) ==
    IF query \notin DOMAIN map
    THEN LET inferred == get_closest_match(query, knowns)
         IN [result |-> inferred,
             map |-> [k \in DOMAIN map \cup {query} |->
                         IF k = query THEN inferred ELSE map[k]],
             matched |-> TRUE]
    ELSE [result |-> map[query], map |-> map, matched |-> FALSE]

\* Variant: infer_speaker without the lookup in speaker_map.
infer_speaker_nocache(no_infer, map, knowns, query) ==
    IF no_infer
    THEN [result |-> query, map |-> map, matched |-> FALSE]
    ELSE LET inferred == get_closest_match(query, knowns)
         IN [result |-> inferred,
             map |-> [k \in DOMAIN map \cup {query} |->
                         IF k = query THEN inferred ELSE map[k]],
             matched |-> TRUE]

\* Variant: a new label is stored corrected but returned as it came.
infer_speaker_raw(no_infer, map, knowns, query) ==
    IF no_infer
    THEN [result |-> query, map |-> map, matched |-> FALSE]
    ELSE IF query \notin DOMAIN map
    THEN LET inferred == get_closest_match(query, knowns)
         IN [result |-> query,
             map |-> [k \in DOMAIN map \cup {query} |->
                         IF k = query THEN inferred ELSE map[k]],
             matched |-> TRUE]
    ELSE [result |-> map[query], map |-> map, matched |-> FALSE]

\* infer_speaker(speaker): the value returned, the map afterwards, and
\* whether get_closest_match was called.
infer_speaker(no_infer, map, knowns, query) ==
    IF no_infer
    THEN [result |-> query, map |-> map, matched |-> FALSE]
    ELSE IF query \notin DOMAIN map
    THEN LET inferred == get_closest_match(query, knowns)
         IN [result |-> inferred,
             map |-> [k \in DOMAIN map \cup {query} |->
                         IF k = query THEN inferred ELSE map[k]],
             matched |-> TRUE]
    ELSE [result |-> map[query], map |-> map, matched |-> FALSE]

\* Variant: an empty line is never taken for a duplicate.
IsDuplicate_nonempty(line, last) == line = last /\ line # <<>>

\* line == last_line
IsDuplicate(line, last) == line = last

\* Variant: a duplicate line that still adds its duration.
SkipDuplicate_counted(caption) ==
    /\ pc = "loop"
    /\ Len(captions) < MaxCues
    /\ IsDuplicate(Normalize(caption.text), last_line)
    /\ captions' = Append(captions, caption)
    /\ duration' = duration + calc_duration(caption.start, caption.end)
    /\ UNCHANGED <<no_infer_speakers, known_speakers, speaker_map, blocks,
                   last_line, start_time, end_time, current_speech,
                   speaker, resolved, pc, returned>>
    /\ UNCHANGED <<pp_vars, pn_vars, f_vars>>

\* if line == last_line: continue
SkipDuplicate(caption) ==
    /\ pc = "loop"
    /\ Len(captions) < MaxCues
    /\ IsDuplicate(Normalize(caption.text), last_line)
    /\ captions' = Append(captions, caption)
    /\ UNCHANGED <<no_infer_speakers, known_speakers, speaker_map, blocks,
                   last_line, start_time, end_time, duration, current_speech,
                   speaker, resolved, pc, returned>>
    /\ UNCHANGED <<pp_vars, pn_vars, f_vars>>

\* Variant: the previous block recorded without the start_time test.
RecordBlock_always(bs, st, et, dur, spk, speech) ==
    Append(bs, Block(st, et, dur, spk, speech))

\* Variant: the previous block put at the head of the list.
RecordBlock_prepend(bs, st, et, dur, spk, speech) ==
    IF st # None THEN <<Block(st, et, dur, spk, speech)>> \o bs ELSE bs

\* Variant: the previous block recorded with end - start as its duration.
RecordBlock_span(bs, st, et, dur, spk, speech) ==
    IF st # None
    THEN Append(bs, Block(st, et, TimeOfDay(et) - TimeOfDay(st), spk, speech))
    ELSE bs

\* if start_time is not None: blocks.append(Block(start_time, end_time,
\*     duration, speaker, current_speech))
RecordBlock(bs, st, et, dur, spk, speech) ==
    IF st # None THEN Append(bs, Block(st, et, dur, spk, speech)) ELSE bs

\* An iteration whose line starts with ">>": record the previous block and
\* start a new one.
NewSpeaker(caption) ==
    LET line == Normalize(caption.text) IN
    /\ pc = "loop"
    /\ Len(captions) < MaxCues
    /\ ~IsDuplicate(line, last_line)
    /\ StartsWith(line, <<">", ">">>)
    /\ captions' = Append(captions, caption)
    /\ last_line' = line
    /\ blocks' = RecordBlock(blocks, start_time, end_time, duration, speaker,
                             current_speech)
    /\ current_speech' = line
    /\ start_time' = caption.start
    /\ end_time' = caption.end
    /\ duration' = 0 + calc_duration(caption.start, caption.end)
    /\ IF Contains(line, ":")
       THEN LET r == infer_speaker(no_infer_speakers, speaker_map,
                                   known_speakers, RawLabel(line))
            IN /\ speaker' = r.result
               /\ speaker_map' = r.map
               /\ resolved' = Append(resolved,
                                  [idx |-> Len(captions) + 1,
                                   query |-> RawLabel(line),
                                   result |-> r.result,
                                   matched |-> r.matched])
       ELSE /\ speaker' = UNKNOWN_SPEAKER
            /\ UNCHANGED <<speaker_map, resolved>>
    /\ UNCHANGED <<no_infer_speakers, known_speakers, pc, returned>>
    /\ UNCHANGED <<pp_vars, pn_vars, f_vars>>

\* Variant: a continuation that leaves end_time as it is.
Continuation_noextend(caption) ==
    LET line == Normalize(caption.text) IN
    /\ pc = "loop"
    /\ Len(captions) < MaxCues
    /\ ~IsDuplicate(line, last_line)
    /\ ~StartsWith(line, <<">", ">">>)
    /\ captions' = Append(captions, caption)
    /\ last_line' = line
    /\ current_speech' = current_speech \o <<" ">> \o line
    /\ duration' = duration + calc_duration(caption.start, caption.end)
    /\ UNCHANGED <<no_infer_speakers, known_speakers, speaker_map, blocks,
                   start_time, end_time, speaker, resolved, pc, returned>>
    /\ UNCHANGED <<pp_vars, pn_vars, f_vars>>

\* An iteration whose line does not start with ">>": extend the current
\* speech.
Continuation(caption) ==
    LET line == Normalize(caption.text) IN
    /\ pc = "loop"
    /\ Len(captions) < MaxCues
    /\ ~IsDuplicate(line, last_line)
    /\ ~StartsWith(line, <<">", ">">>)
    /\ captions' = Append(captions, caption)
    /\ last_line' = line
    /\ current_speech' = current_speech \o <<" ">> \o line
    /\ end_time' = caption.end
    /\ duration' = duration + calc_duration(caption.start, caption.end)
    /\ UNCHANGED <<no_infer_speakers, known_speakers, speaker_map, blocks,
                   start_time, speaker, resolved, pc, returned>>
    /\ UNCHANGED <<pp_vars, pn_vars, f_vars>>

\* Variant: a return that first records the block being accumulated.
Return_finalize ==
    /\ pc = "loop"
    /\ pc' = "done"
    /\ returned' = <<RecordBlock(blocks, start_time, end_time, duration,
                                 speaker, current_speech), speaker_map>>
    /\ UNCHANGED <<no_infer_speakers, known_speakers, captions, speaker_map,
                   blocks, last_line, start_time, end_time, duration,
                   current_speech, speaker, resolved>>
    /\ UNCHANGED <<pp_vars, pn_vars, f_vars>>

\* The captions are exhausted: return blocks, speaker_map
Return ==
    /\ pc = "loop"
    /\ pc' = "done"
    /\ returned' = <<blocks, speaker_map>>
    /\ UNCHANGED <<no_infer_speakers, known_speakers, captions, speaker_map,
                   blocks, last_line, start_time, end_time, duration,
                   current_speech, speaker, resolved>>
    /\ UNCHANGED <<pp_vars, pn_vars, f_vars>>

Next ==
    \/ \E caption \in Captions : SkipDuplicate(caption)
    \/ \E caption \in Captions : NewSpeaker(caption)
    \/ \E caption \in Captions : Continuation(caption)
    \/ Return

Spec == Init /\ [][Next]_vars

\* main, --get-transcript: "\n".join(b.speech for b in blocks)
RECURSIVE get_transcript(_)
get_transcript(bs) ==
    IF bs = <<>> THEN <<>>
    ELSE IF Len(bs) = 1 THEN bs[1].speech
    ELSE get_transcript(SubSeq(bs, 1, Len(bs) - 1))
             \o <<"\n">> \o bs[Len(bs)].speech

----------------------------------------------------------------------------
(* preprocess *)

\* The text of a file is the text its file object delivers: main() and
\* parse_new_captions open the file in text mode, so every line of it ends
\* with "\n", except perhaps the last.

\* The characters \d matches in a str pattern: the 660 decimal digits of
\* Unicode (category Nd, Unicode 14.0), from the ASCII digits and ARABIC-INDIC
\* U+0660..U+0669 up to the five sets of MATHEMATICAL digits U+1D7CE..U+1D7FF
\* and U+1E950..U+1E959, U+1FBF0..U+1FBF9.
DecimalDigits ==
    {"0", "1", "2", "3", "4",
     "5", "6", "7", "8", "9",
     "U+0660", "U+0661", "U+0662", "U+0663", "U+0664",
     "U+0665", "U+0666", "U+0667", "U+0668", "U+0669",
     "U+06F0", "U+06F1", "U+06F2", "U+06F3", "U+06F4",
     "U+06F5", "U+06F6", "U+06F7", "U+06F8", "U+06F9",
     "U+07C0", "U+07C1", "U+07C2", "U+07C3", "U+07C4",
     "U+07C5", "U+07C6", "U+07C7", "U+07C8", "U+07C9",
     "U+0966", "U+0967", "U+0968", "U+0969", "U+096A",
     "U+096B", "U+096C", "U+096D", "U+096E", "U+096F",
     "U+09E6", "U+09E7", "U+09E8", "U+09E9", "U+09EA",
     "U+09EB", "U+09EC", "U+09ED", "U+09EE", "U+09EF",
     "U+0A66", "U+0A67", "U+0A68", "U+0A69", "U+0A6A",
     "U+0A6B", "U+0A6C", "U+0A6D", "U+0A6E", "U+0A6F",
     "U+0AE6", "U+0AE7", "U+0AE8", "U+0AE9", "U+0AEA",
     "U+0AEB", "U+0AEC", "U+0AED", "U+0AEE", "U+0AEF",
     "U+0B66", "U+0B67", "U+0B68", "U+0B69", "U+0B6A",
     "U+0B6B", "U+0B6C", "U+0B6D", "U+0B6E", "U+0B6F",
     "U+0BE6", "U+0BE7", "U+0BE8", "U+0BE9", "U+0BEA",
     "U+0BEB", "U+0BEC", "U+0BED", "U+0BEE", "U+0BEF",
     "U+0C66", "U+0C67", "U+0C68", "U+0C69", "U+0C6A",
     "U+0C6B", "U+0C6C", "U+0C6D", "U+0C6E", "U+0C6F",
     "U+0CE6", "U+0CE7", "U+0CE8", "U+0CE9", "U+0CEA",
     "U+0CEB", "U+0CEC", "U+0CED", "U+0CEE", "U+0CEF",
     "U+0D66", "U+0D67", "U+0D68", "U+0D69", "U+0D6A",
     "U+0D6B", "U+0D6C", "U+0D6D", "U+0D6E", "U+0D6F",
     "U+0DE6", "U+0DE7", "U+0DE8", "U+0DE9", "U+0DEA",
     "U+0DEB", "U+0DEC", "U+0DED", "U+0DEE", "U+0DEF",
     "U+0E50", "U+0E51", "U+0E52", "U+0E53", "U+0E54",
     "U+0E55", "U+0E56", "U+0E57", "U+0E58", "U+0E59",
     "U+0ED0", "U+0ED1", "U+0ED2", "U+0ED3", "U+0ED4",
     "U+0ED5", "U+0ED6", "U+0ED7", "U+0ED8", "U+0ED9",
     "U+0F20", "U+0F21", "U+0F22", "U+0F23", "U+0F24",
     "U+0F25", "U+0F26", "U+0F27", "U+0F28", "U+0F29",
     "U+1040", "U+1041", "U+1042", "U+1043", "U+1044",
     "U+1045", "U+1046", "U+1047", "U+1048", "U+1049",
     "U+1090", "U+1091", "U+1092", "U+1093", "U+1094",
     "U+1095", "U+1096", "U+1097", "U+1098", "U+1099",
     "U+17E0", "U+17E1", "U+17E2", "U+17E3", "U+17E4",
     "U+17E5", "U+17E6", "U+17E7", "U+17E8", "U+17E9",
     "U+1810", "U+1811", "U+1812", "U+1813", "U+1814",
     "U+1815", "U+1816", "U+1817", "U+1818", "U+1819",
     "U+1946", "U+1947", "U+1948", "U+1949", "U+194A",
     "U+194B", "U+194C", "U+194D", "U+194E", "U+194F",
     "U+19D0", "U+19D1", "U+19D2", "U+19D3", "U+19D4",
     "U+19D5", "U+19D6", "U+19D7", "U+19D8", "U+19D9",
     "U+1A80", "U+1A81", "U+1A82", "U+1A83", "U+1A84",
     "U+1A85", "U+1A86", "U+1A87", "U+1A88", "U+1A89",
     "U+1A90", "U+1A91", "U+1A92", "U+1A93", "U+1A94",
     "U+1A95", "U+1A96", "U+1A97", "U+1A98", "U+1A99",
     "U+1B50", "U+1B51", "U+1B52", "U+1B53", "U+1B54",
     "U+1B55", "U+1B56", "U+1B57", "U+1B58", "U+1B59",
     "U+1BB0", "U+1BB1", "U+1BB2", "U+1BB3", "U+1BB4",
     "U+1BB5", "U+1BB6", "U+1BB7", "U+1BB8", "U+1BB9",
     "U+1C40", "U+1C41", "U+1C42", "U+1C43", "U+1C44",
     "U+1C45", "U+1C46", "U+1C47", "U+1C48", "U+1C49",
     "U+1C50", "U+1C51", "U+1C52", "U+1C53", "U+1C54",
     "U+1C55", "U+1C56", "U+1C57", "U+1C58", "U+1C59",
     "U+A620", "U+A621", "U+A622", "U+A623", "U+A624",
     "U+A625", "U+A626", "U+A627", "U+A628", "U+A629",
     "U+A8D0", "U+A8D1", "U+A8D2", "U+A8D3", "U+A8D4",
     "U+A8D5", "U+A8D6", "U+A8D7", "U+A8D8", "U+A8D9",
     "U+A900", "U+A901", "U+A902", "U+A903", "U+A904",
     "U+A905", "U+A906", "U+A907", "U+A908", "U+A909",
     "U+A9D0", "U+A9D1", "U+A9D2", "U+A9D3", "U+A9D4",
     "U+A9D5", "U+A9D6", "U+A9D7", "U+A9D8", "U+A9D9",
     "U+A9F0", "U+A9F1", "U+A9F2", "U+A9F3", "U+A9F4",
     "U+A9F5", "U+A9F6", "U+A9F7", "U+A9F8", "U+A9F9",
     "U+AA50", "U+AA51", "U+AA52", "U+AA53", "U+AA54",
     "U+AA55", "U+AA56", "U+AA57", "U+AA58", "U+AA59",
     "U+ABF0", "U+ABF1", "U+ABF2", "U+ABF3", "U+ABF4",
     "U+ABF5", "U+ABF6", "U+ABF7", "U+ABF8", "U+ABF9",
     "U+FF10", "U+FF11", "U+FF12", "U+FF13", "U+FF14",
     "U+FF15", "U+FF16", "U+FF17", "U+FF18", "U+FF19",
     "U+104A0", "U+104A1", "U+104A2", "U+104A3", "U+104A4",
     "U+104A5", "U+104A6", "U+104A7", "U+104A8", "U+104A9",
     "U+10D30", "U+10D31", "U+10D32", "U+10D33", "U+10D34",
     "U+10D35", "U+10D36", "U+10D37", "U+10D38", "U+10D39",
     "U+11066", "U+11067", "U+11068", "U+11069", "U+1106A",
     "U+1106B", "U+1106C", "U+1106D", "U+1106E", "U+1106F",
     "U+110F0", "U+110F1", "U+110F2", "U+110F3", "U+110F4",
     "U+110F5", "U+110F6", "U+110F7", "U+110F8", "U+110F9",
     "U+11136", "U+11137", "U+11138", "U+11139", "U+1113A",
     "U+1113B", "U+1113C", "U+1113D", "U+1113E", "U+1113F",
     "U+111D0", "U+111D1", "U+111D2", "U+111D3", "U+111D4",
     "U+111D5", "U+111D6", "U+111D7", "U+111D8", "U+111D9",
     "U+112F0", "U+112F1", "U+112F2", "U+112F3", "U+112F4",
     "U+112F5", "U+112F6", "U+112F7", "U+112F8", "U+112F9",
     "U+11450", "U+11451", "U+11452", "U+11453", "U+11454",
     "U+11455", "U+11456", "U+11457", "U+11458", "U+11459",
     "U+114D0", "U+114D1", "U+114D2", "U+114D3", "U+114D4",
     "U+114D5", "U+114D6", "U+114D7", "U+114D8", "U+114D9",
     "U+11650", "U+11651", "U+11652", "U+11653", "U+11654",
     "U+11655", "U+11656", "U+11657", "U+11658", "U+11659",
     "U+116C0", "U+116C1", "U+116C2", "U+116C3", "U+116C4",
     "U+116C5", "U+116C6", "U+116C7", "U+116C8", "U+116C9",
     "U+11730", "U+11731", "U+11732", "U+11733", "U+11734",
     "U+11735", "U+11736", "U+11737", "U+11738", "U+11739",
     "U+118E0", "U+118E1", "U+118E2", "U+118E3", "U+118E4",
     "U+118E5", "U+118E6", "U+118E7", "U+118E8", "U+118E9",
     "U+11950", "U+11951", "U+11952", "U+11953", "U+11954",
     "U+11955", "U+11956", "U+11957", "U+11958", "U+11959",
     "U+11C50", "U+11C51", "U+11C52", "U+11C53", "U+11C54",
     "U+11C55", "U+11C56", "U+11C57", "U+11C58", "U+11C59",
     "U+11D50", "U+11D51", "U+11D52", "U+11D53", "U+11D54",
     "U+11D55", "U+11D56", "U+11D57", "U+11D58", "U+11D59",
     "U+11DA0", "U+11DA1", "U+11DA2", "U+11DA3", "U+11DA4",
     "U+11DA5", "U+11DA6", "U+11DA7", "U+11DA8", "U+11DA9",
     "U+16A60", "U+16A61", "U+16A62", "U+16A63", "U+16A64",
     "U+16A65", "U+16A66", "U+16A67", "U+16A68", "U+16A69",
     "U+16AC0", "U+16AC1", "U+16AC2", "U+16AC3", "U+16AC4",
     "U+16AC5", "U+16AC6", "U+16AC7", "U+16AC8", "U+16AC9",
     "U+16B50", "U+16B51", "U+16B52", "U+16B53", "U+16B54",
     "U+16B55", "U+16B56", "U+16B57", "U+16B58", "U+16B59",
     "U+1D7CE", "U+1D7CF", "U+1D7D0", "U+1D7D1", "U+1D7D2",
     "U+1D7D3", "U+1D7D4", "U+1D7D5", "U+1D7D6", "U+1D7D7",
     "U+1D7D8", "U+1D7D9", "U+1D7DA", "U+1D7DB", "U+1D7DC",
     "U+1D7DD", "U+1D7DE", "U+1D7DF", "U+1D7E0", "U+1D7E1",
     "U+1D7E2", "U+1D7E3", "U+1D7E4", "U+1D7E5", "U+1D7E6",
     "U+1D7E7", "U+1D7E8", "U+1D7E9", "U+1D7EA", "U+1D7EB",
     "U+1D7EC", "U+1D7ED", "U+1D7EE", "U+1D7EF", "U+1D7F0",
     "U+1D7F1", "U+1D7F2", "U+1D7F3", "U+1D7F4", "U+1D7F5",
     "U+1D7F6", "U+1D7F7", "U+1D7F8", "U+1D7F9", "U+1D7FA",
     "U+1D7FB", "U+1D7FC", "U+1D7FD", "U+1D7FE", "U+1D7FF",
     "U+1E140", "U+1E141", "U+1E142", "U+1E143", "U+1E144",
     "U+1E145", "U+1E146", "U+1E147", "U+1E148", "U+1E149",
     "U+1E2F0", "U+1E2F1", "U+1E2F2", "U+1E2F3", "U+1E2F4",
     "U+1E2F5", "U+1E2F6", "U+1E2F7", "U+1E2F8", "U+1E2F9",
     "U+1E950", "U+1E951", "U+1E952", "U+1E953", "U+1E954",
     "U+1E955", "U+1E956", "U+1E957", "U+1E958", "U+1E959",
     "U+1FBF0", "U+1FBF1", "U+1FBF2", "U+1FBF3", "U+1FBF4",
     "U+1FBF5", "U+1FBF6", "U+1FBF7", "U+1FBF8", "U+1FBF9"}

\* \d
IsDigit(c) == c \in DecimalDigits

\* Variant: the pattern without its anchor, found anywhere in the line.
timestamp_pattern_search(line) ==
    \E k \in 0..(Len(line) - 12) :
        /\ \A i \in {1, 2, 4, 5, 7, 8, 10, 11, 12} : IsDigit(line[k + i])
        /\ line[k + 3] = ":" /\ line[k + 6] = ":" /\ line[k + 9] = "."

\* re.compile(r"^\d\d\:\d\d\:\d\d\.\d\d\d").match(line)
timestamp_pattern(line) ==
    /\ Len(line) >= 12
    /\ \A i \in {1, 2, 4, 5, 7, 8, 10, 11, 12} : IsDigit(line[i])
    /\ line[3] = ":" /\ line[6] = ":" /\ line[9] = "."

\* fp.readline() at stream position pos: the text up to and including the
\* next "\n", or up to the end of the file; "" at the end of the file.
readline(text, pos) ==
    LET ends == {i \in (pos + 1)..Len(text) : text[i] = "\n"}
    IN IF ends = {}
       THEN SubSeq(text, pos + 1, Len(text))
       ELSE SubSeq(text, pos + 1,
                   CHOOSE i \in ends : \A j \in ends : i <= j)

\* "WEBVTT\r\n"
MagicHeader == <<"W", "E", "B", "V", "T", "T", "\r", "\n">>

\* Sample lines of a caption file.
\* "WEBVTT\n"
L_webvtt == <<"W", "E", "B", "V", "T", "T", "\n">>
\* "Kind: captions\n" is shortened to "Kind\n"
L_kind == <<"K", "i", "n", "d", "\n">>
\* "00:00:02.000 --> 00:00:04.000\n"
L_cue == <<"0", "0", ":", "0", "0", ":", "0", "2", ".", "0", "0", "0",
           " ", "-", "-", ">", " ",
           "0", "0", ":", "0", "0", ":", "0", "4", ".", "0", "0", "0", "\n">>
\* "01:23:45.678\n"
L_stamp == <<"0", "1", ":", "2", "3", ":", "4", "5", ".", "6", "7", "8", "\n">>
\* " 00:00:02.000\n"     (a timestamp after a blank)
L_indented == <<" ", "0", "0", ":", "0", "0", ":", "0", "2", ".", "0", "0", "0", "\n">>
\* "00:00:02.00\n"       (two digits of milliseconds)
L_centis == <<"0", "0", ":", "0", "0", ":", "0", "2", ".", "0", "0", "\n">>
\* "0:00:02.000\n"       (one digit of hours)
L_hour1 == <<"0", ":", "0", "0", ":", "0", "2", ".", "0", "0", "0", "\n">>
\* "\n"
L_empty == <<"\n">>
\* "00:00:02.000\n" written with the ARABIC-INDIC digits U+0660 and U+0662
L_arabic == <<"U+0660", "U+0660", ":", "U+0660", "U+0660", ":",
              "U+0660", "U+0662", ".", "U+0660", "U+0660", "U+0660", "\n">>

FileLines ==
    {L_webvtt, L_kind, L_cue, L_stamp, L_indented, L_centis, L_hour1, L_empty,
     L_arabic}

RECURSIVE Concat(_)
Concat(ls) == IF ls = <<>> THEN <<>> ELSE Head(ls) \o Concat(Tail(ls))

\* The files: up to MaxLines lines, the last one with or without its "\n".
FileTexts ==
    LET whole == UNION {{Concat(ls) : ls \in [1..n -> FileLines]} :
                        n \in 0..MaxLines}
    IN whole \cup {SubSeq(t, 1, Len(t) - 1) : t \in whole \ {<<>>}}

InitPreprocess ==
    /\ fp_text \in FileTexts
    /\ fp_pos = 0
    /\ file_pos = 0
    /\ pp_pc = "loop"
    /\ pp_out = None
    /\ SegIdle
    /\ ParseNewIdle
    /\ FetchIdle

\* Variant: the position of the line read is not recorded.
ReadHeaderLine_notell ==
    /\ pp_pc = "loop"
    /\ LET line == readline(fp_text, fp_pos)
       IN /\ line # <<>>
          /\ ~timestamp_pattern(line)
          /\ fp_pos' = fp_pos + Len(line)
          /\ file_pos' = file_pos
    /\ UNCHANGED <<fp_text, pp_pc, pp_out, seg_vars, pn_vars, f_vars>>

\* One turn of the loop on a line that does not match:
\* file_pos = webvtt_fp.tell()
ReadHeaderLine ==
    /\ pp_pc = "loop"
    /\ LET line == readline(fp_text, fp_pos)
       IN /\ line # <<>>
          /\ ~timestamp_pattern(line)
          /\ fp_pos' = fp_pos + Len(line)
          /\ file_pos' = fp_pos + Len(line)
    /\ UNCHANGED <<fp_text, pp_pc, pp_out, seg_vars, pn_vars, f_vars>>

\* The turn of the loop on the first line that matches: break, seek(file_pos),
\* return "WEBVTT\r\n" + webvtt_fp.read()
ReadTimestampLine ==
    /\ pp_pc = "loop"
    /\ LET line == readline(fp_text, fp_pos)
       IN /\ line # <<>>
          /\ timestamp_pattern(line)
    /\ pp_out' = MagicHeader \o SubSeq(fp_text, file_pos + 1, Len(fp_text))
    /\ fp_pos' = Len(fp_text)
    /\ pp_pc' = "done"
    /\ UNCHANGED <<fp_text, file_pos, seg_vars, pn_vars, f_vars>>

\* readline() returns "" at the end of the file:
\* raise Exception("No timestamp-like lines found!")
RaiseNoTimestamp ==
    /\ pp_pc = "loop"
    /\ readline(fp_text, fp_pos) = <<>>
    /\ pp_pc' = "raised"
    /\ UNCHANGED <<fp_text, fp_pos, file_pos, pp_out, seg_vars, pn_vars, f_vars>>

NextPreprocess ==
    \/ ReadHeaderLine
    \/ ReadTimestampLine
    \/ RaiseNoTimestamp

SpecPreprocess == InitPreprocess /\ [][NextPreprocess]_vars

----------------------------------------------------------------------------
(* parse_new_captions *)

\* str.endswith(suffix)
EndsWith(s, suffix) ==
    /\ Len(s) >= Len(suffix)
    /\ SubSeq(s, Len(s) - Len(suffix) + 1, Len(s)) = suffix

\* ".vtt" and ".txt"
VttSuffix == <<".", "v", "t", "t">>
TxtSuffix == <<".", "t", "x", "t">>

\* dest_filename = src_filename[:-4] + ".txt"
dest_filename(src_filename) ==
    SubSeq(src_filename, 1, Len(src_filename) - 4) \o TxtSuffix

\* Sample entries of srcdir: "a.vtt", "b.vtt", "c.vtt", "d.vtt", "a.txt",
\* ".vtt" (nothing but the suffix) and "e.vtt.part".
F_a == <<"a">> \o VttSuffix
F_b == <<"b">> \o VttSuffix
F_c == <<"c">> \o VttSuffix
F_d == <<"d">> \o VttSuffix
F_a_txt == <<"a">> \o TxtSuffix
F_bare == VttSuffix
F_part == <<"e">> \o VttSuffix \o <<".", "p", "a", "r", "t">>

SourceNames == {F_a, F_b, F_c, F_d, F_a_txt, F_bare, F_part}

\* parse(fp, no_infer_speakers=True) on the file of that name: it raises when
\* preprocessing fails (b.vtt has no timestamp line) or the cue parser fails
\* (c.vtt is malformed), and otherwise returns captions whose
\* get_transcript() is the transcript of the file.
parse(src_filename) ==
    CASE src_filename = F_b ->
             [raises |-> TRUE, error |-> "No timestamp-like lines found!"]
      [] src_filename = F_c ->
             [raises |-> TRUE, error |-> "malformed cue"]
      [] OTHER ->
             [raises |-> FALSE, transcript |-> <<"transcript", src_filename>>]

\* The listings of srcdir: up to MaxFiles distinct names, in any order.
SourceListings ==
    UNION {{ls \in [1..n -> SourceNames] :
                \A i, j \in 1..n : i # j => ls[i] # ls[j]} : n \in 0..MaxFiles}

\* The transcripts dstdir may hold when the call begins.
DestListings == SUBSET {dest_filename(F_a), dest_filename(F_b), dest_filename(F_d)}

InitParseNew ==
    /\ src_entries \in SourceListings
    /\ existing \in DestListings
    /\ transcripts = existing
    /\ pn_next = 0
    /\ written = <<>>
    /\ warnings = {}
    /\ pn_pc = "loop"
    /\ SegIdle
    /\ PreprocessIdle
    /\ FetchIdle

\* if not src_filename.endswith(".vtt"): continue
SkipNotVtt ==
    /\ pn_pc = "loop"
    /\ pn_next < Len(src_entries)
    /\ ~EndsWith(src_entries[pn_next + 1], VttSuffix)
    /\ pn_next' = pn_next + 1
    /\ UNCHANGED <<src_entries, existing, transcripts, written, warnings, pn_pc,
                   seg_vars, pp_vars, f_vars>>

\* if dest_filepath.exists(): continue
SkipExisting ==
    /\ pn_pc = "loop"
    /\ pn_next < Len(src_entries)
    /\ EndsWith(src_entries[pn_next + 1], VttSuffix)
    /\ dest_filename(src_entries[pn_next + 1]) \in transcripts
    /\ pn_next' = pn_next + 1
    /\ UNCHANGED <<src_entries, existing, transcripts, written, warnings, pn_pc,
                   seg_vars, pp_vars, f_vars>>

\* Variant: the exception of parse is not caught and ends the call.
ParseFails_abort ==
    /\ pn_pc = "loop"
    /\ pn_next < Len(src_entries)
    /\ EndsWith(src_entries[pn_next + 1], VttSuffix)
    /\ dest_filename(src_entries[pn_next + 1]) \notin transcripts
    /\ parse(src_entries[pn_next + 1]).raises
    /\ warnings' = warnings \cup {src_entries[pn_next + 1]}
    /\ pn_next' = pn_next + 1
    /\ pn_pc' = "done"
    /\ UNCHANGED <<src_entries, existing, transcripts, written,
                   seg_vars, pp_vars, f_vars>>

\* except Exception as e: logging.warning(...); continue
ParseFails ==
    /\ pn_pc = "loop"
    /\ pn_next < Len(src_entries)
    /\ EndsWith(src_entries[pn_next + 1], VttSuffix)
    /\ dest_filename(src_entries[pn_next + 1]) \notin transcripts
    /\ parse(src_entries[pn_next + 1]).raises
    /\ warnings' = warnings \cup {src_entries[pn_next + 1]}
    /\ pn_next' = pn_next + 1
    /\ UNCHANGED <<src_entries, existing, transcripts, written, pn_pc,
                   seg_vars, pp_vars, f_vars>>

\* parse returns: open(dest_filepath, "w"), fp.write(captions.get_transcript())
ParseAndWrite ==
    /\ pn_pc = "loop"
    /\ pn_next < Len(src_entries)
    /\ EndsWith(src_entries[pn_next + 1], VttSuffix)
    /\ dest_filename(src_entries[pn_next + 1]) \notin transcripts
    /\ ~parse(src_entries[pn_next + 1]).raises
    /\ transcripts' = transcripts \cup {dest_filename(src_entries[pn_next + 1])}
    /\ written' = Append(written,
                         [file |-> dest_filename(src_entries[pn_next + 1]),
                          content |-> parse(src_entries[pn_next + 1]).transcript])
    /\ pn_next' = pn_next + 1
    /\ UNCHANGED <<src_entries, existing, warnings, pn_pc,
                   seg_vars, pp_vars, f_vars>>

\* The for loop has walked the whole listing.
ReturnParseNew ==
    /\ pn_pc = "loop"
    /\ pn_next = Len(src_entries)
    /\ pn_pc' = "done"
    /\ UNCHANGED <<src_entries, existing, pn_next, transcripts, written, warnings,
                   seg_vars, pp_vars, f_vars>>

NextParseNew ==
    \/ SkipNotVtt
    \/ SkipExisting
    \/ ParseFails
    \/ ParseAndWrite
    \/ ReturnParseNew

SpecParseNew == InitParseNew /\ [][NextParseNew]_vars

----------------------------------------------------------------------------
(* fetch_new_raw_captions *)

\* page_size = 100
page_size == 100

\* The ids of the VODs the server lists.
VodIds == {"v1", "v2", "v3"}

\* body["vods"] of a listing: the server may list any VODs on any page, the
\* same one twice or on several pages.
PageBodies ==
    UNION {[1..n -> VodIds] : n \in 0..MaxVodsPerPage}

\* body["meta"]["count"]: around the multiples of page_size.
Counts ==
    {c \in {k * page_size + d : k \in 0..MaxFullPages, d \in {-1, 0, 1}} : c >= 0}

\* Variant: the loop ends as soon as the pages fetched reach the count.
IsLastPage_geq(pg, cnt) == ((pg + 1) * page_size) >= cnt

\* if ((page + 1) * page_size) > body["meta"]["count"]: break
IsLastPage(pg, cnt) == ((pg + 1) * page_size) > cnt

InitFetch ==
    /\ initial_vods \in SUBSET VodIds
    /\ known_vods = initial_vods
    /\ page = 0
    /\ count \in Counts
    /\ body_vods = <<>>
    /\ requests = <<>>
    /\ retrieved = <<>>
    /\ f_pc = "request"
    /\ SegIdle
    /\ PreprocessIdle
    /\ ParseNewIdle

\* urlopen(vod_list_url) and json.loads: the listing of this page arrives.
RequestPage ==
    /\ f_pc = "request"
    /\ \E body \in PageBodies : body_vods' = body
    /\ requests' = Append(requests, page)
    /\ f_pc' = "vods"
    /\ UNCHANGED <<initial_vods, known_vods, page, count, retrieved,
                   seg_vars, pp_vars, pn_vars>>

\* urlopen(vod_list_url) raises: the exception ends the call.
RequestFails ==
    /\ f_pc = "request"
    /\ requests' = Append(requests, page)
    /\ f_pc' = "raised"
    /\ UNCHANGED <<initial_vods, known_vods, page, count, body_vods, retrieved,
                   seg_vars, pp_vars, pn_vars>>

\* if v["id"] in known_vods: continue
SkipKnownVod ==
    /\ f_pc = "vods"
    /\ body_vods # <<>>
    /\ Head(body_vods) \in known_vods
    /\ body_vods' = Tail(body_vods)
    /\ UNCHANGED <<initial_vods, known_vods, page, count, requests, retrieved,
                   f_pc, seg_vars, pp_vars, pn_vars>>

\* Variant: the id is remembered only when its captions were downloaded.
RetrieveVod_ondownload ==
    /\ f_pc = "vods"
    /\ body_vods # <<>>
    /\ Head(body_vods) \notin known_vods
    /\ \E ok \in BOOLEAN :
           /\ retrieved' = Append(retrieved,
                                  [id |-> Head(body_vods), returned |-> TRUE,
                                   downloaded |-> ok])
           /\ known_vods' = IF ok THEN known_vods \cup {Head(body_vods)}
                                  ELSE known_vods
    /\ body_vods' = Tail(body_vods)
    /\ UNCHANGED <<initial_vods, page, count, requests, f_pc,
                   seg_vars, pp_vars, pn_vars>>

\* retrieve_captions_for_vod(v) returns, its download done or failed and
\* logged; known_vods.add(v["id"])
RetrieveVod ==
    /\ f_pc = "vods"
    /\ body_vods # <<>>
    /\ Head(body_vods) \notin known_vods
    /\ \E ok \in BOOLEAN :
           retrieved' = Append(retrieved,
                               [id |-> Head(body_vods), returned |-> TRUE,
                                downloaded |-> ok])
    /\ known_vods' = known_vods \cup {Head(body_vods)}
    /\ body_vods' = Tail(body_vods)
    /\ UNCHANGED <<initial_vods, page, count, requests, f_pc,
                   seg_vars, pp_vars, pn_vars>>

\* retrieve_captions_for_vod(v) raises outside its try (the show-info
\* request, the date of the show): the exception ends the call.
RetrieveRaises ==
    /\ f_pc = "vods"
    /\ body_vods # <<>>
    /\ Head(body_vods) \notin known_vods
    /\ retrieved' = Append(retrieved,
                           [id |-> Head(body_vods), returned |-> FALSE,
                            downloaded |-> FALSE])
    /\ f_pc' = "raised"
    /\ UNCHANGED <<initial_vods, known_vods, page, count, body_vods, requests,
                   seg_vars, pp_vars, pn_vars>>

\* After the vods of the page, not the last page: page += 1
NextPage ==
    /\ f_pc = "vods"
    /\ body_vods = <<>>
    /\ ~IsLastPage(page, count)
    /\ page' = page + 1
    /\ f_pc' = "request"
    /\ UNCHANGED <<initial_vods, known_vods, count, body_vods, requests,
                   retrieved, seg_vars, pp_vars, pn_vars>>

\* After the vods of the last page: break, return known_vods
ReturnKnownVods ==
    /\ f_pc = "vods"
    /\ body_vods = <<>>
    /\ IsLastPage(page, count)
    /\ f_pc' = "done"
    /\ UNCHANGED <<initial_vods, known_vods, page, count, body_vods, requests,
                   retrieved, seg_vars, pp_vars, pn_vars>>

NextFetch ==
    \/ RequestPage
    \/ RequestFails
    \/ SkipKnownVod
    \/ RetrieveVod
    \/ RetrieveRaises
    \/ NextPage
    \/ ReturnKnownVods

\* The call runs on as long as it has a step to take: every request is
\* answered or fails.
SpecFetch == InitFetch /\ [][NextFetch]_vars /\ WF_vars(NextFetch)

----------------------------------------------------------------------------
(* What the claims speak about, restated over the list of consumed cues *)

\* The normalised lines of the consumed cues.
Lines == [i \in 1..Len(captions) |-> Normalize(captions[i].text)]

\* A cue is accepted when its line differs from the line of the cue before it
\* (from the empty string for the first cue).
AcceptedIn(ls) ==
    {i \in 1..Len(ls) : ls[i] # (IF i = 1 THEN <<>> ELSE ls[i - 1])}

\* The positions of the accepted marker lines, in order.
MarkersIn(ls) ==
    LET IsMarker(i) ==
            /\ ls[i] # (IF i = 1 THEN <<>> ELSE ls[i - 1])
            /\ StartsWith(ls[i], <<">", ">">>)
    IN SelectSeq([i \in 1..Len(ls) |-> i], IsMarker)

\* end - start of the i-th cue, in seconds.
Span(i) == TimeOfDay(captions[i].end) - TimeOfDay(captions[i].start)

RECURSIVE SumSpan(_)
SumSpan(S) ==
    IF S = {} THEN 0
    ELSE LET i == CHOOSE x \in S : TRUE IN Span(i) + SumSpan(S \ {i})

RECURSIVE SumDuration(_)
SumDuration(bs) ==
    IF bs = <<>> THEN 0 ELSE Head(bs).duration + SumDuration(Tail(bs))

\* The accepted cues of the k-th block: its marker cue and the accepted cues
\* up to, not including, the next accepted marker cue.
BlockCues(acc, ms, k) ==
    {i \in acc : ms[k] <= i /\ (k < Len(ms) => i < ms[k + 1])}

\* The lines from..to joined by single spaces.
RECURSIVE JoinLines(_, _, _)
JoinLines(ls, from, to) ==
    IF from = to THEN ls[from]
    ELSE JoinLines(ls, from, to - 1) \o <<" ">> \o ls[to]

\* The greatest member of a non-empty set of positions.
LastOf(S) == CHOOSE i \in S : \A j \in S : j <= i

\* The lines at the positions S, in order, joined by single spaces.
RECURSIVE JoinAt(_, _)
JoinAt(ls, S) ==
    IF Cardinality(S) = 1 THEN ls[LastOf(S)]
    ELSE JoinAt(ls, S \ {LastOf(S)}) \o <<" ">> \o ls[LastOf(S)]

\* The speeches of the blocks the first n accepted marker lines started,
\* one per line.
RECURSIVE SpeechLines(_, _, _, _)
SpeechLines(ls, acc, ms, n) ==
    IF n = 0 THEN <<>>
    ELSE IF n = 1 THEN JoinAt(ls, BlockCues(acc, ms, 1))
    ELSE SpeechLines(ls, acc, ms, n - 1)
             \o <<"\n">> \o JoinAt(ls, BlockCues(acc, ms, n))

\* The text between the ">>" prefix and the first colon of a marker line,
\* trimmed and lowercased.
LabelOf(line) ==
    LET colon == CHOOSE i \in 1..Len(line) :
                     line[i] = ":" /\ \A j \in 1..(i - 1) : line[j] # ":"
    IN Lower(Strip(SubSeq(line, 3, colon - 1), Whitespace))

KnownSet == {known_speakers[i] : i \in 1..Len(known_speakers)}

\* resolve(raw_label) of the speaker resolver.
Resolve(label) ==
    IF no_infer_speakers THEN label
    ELSE IF label \in KnownSet THEN label
    ELSE get_closest_match(label, known_speakers)

\* The speaker of the block the k-th accepted marker line started: the
\* recorded block, or the one being accumulated.
SpeakerOfMarker(k) == IF k <= Len(blocks) THEN blocks[k].speaker ELSE speaker

\* The calls of infer_speaker that computed distances.
Matched == {e \in 1..Len(resolved) : resolved[e].matched}

\* The distances from a label to the known speakers, in list order.
Dists(q) ==
    [j \in 1..Len(known_speakers) |->
        levenshtein_distance(q, known_speakers[j])]

\* The positions, in the list, of the known speakers nearest in ds.
Nearest(ds) == {i \in 1..Len(ds) : \A j \in 1..Len(ds) : ds[i] <= ds[j]}

----------------------------------------------------------------------------
(* Claims *)

\* C1: a marker line ">> name: ..." followed only by non-duplicate
\* continuation lines yields, at stream exhaustion, exactly one block: the
\* resolved speaker, the lines joined by single spaces, the summed durations.
C1_ScenarioA ==
    LET ls == Lines IN
    (/\ pc = "done"
     /\ Len(ls) >= 1
     /\ AcceptedIn(ls) = 1..Len(ls)
     /\ MarkersIn(ls) = <<1>>
     /\ Contains(ls[1], ":"))
    => returned[1] =
         << Block(captions[1].start, captions[Len(ls)].end,
                  SumSpan(1..Len(ls)), Resolve(LabelOf(ls[1])),
                  JoinLines(ls, 1, Len(ls))) >>

\* C2: the list returned holds max(0, m - 1) blocks, m the number of accepted
\* marker lines: the block active at stream exhaustion is not appended.
C2_TrailingBlockDropped ==
    pc = "done" =>
        LET m == Len(MarkersIn(Lines))
        IN Len(returned[1]) = (IF m = 0 THEN 0 ELSE m - 1)

C2_Witness ==
    /\ pc = "done"
    /\ Len(MarkersIn(Lines)) = 3
    /\ Len(returned[1]) = 2

\* C3: the durations of the returned blocks sum to the durations of the
\* accepted cues minus those of the accepted cues before the first accepted
\* marker line.
C3_Conservation ==
    pc = "done" =>
        LET ls == Lines
            acc == AcceptedIn(ls)
            ms == MarkersIn(ls)
        IN SumDuration(returned[1]) =
               SumSpan(acc)
               - SumSpan({i \in acc : \A k \in 1..Len(ms) : i < ms[k]})

\* C4: a cue whose normalised line equals that of the cue before it leaves
\* the whole segmenter state unchanged.
C4_DuplicateSuppression ==
    [][ (/\ Len(captions) >= 1
         /\ Len(captions') = Len(captions) + 1
         /\ Normalize(captions'[Len(captions')].text)
                = Normalize(captions[Len(captions)].text))
        => UNCHANGED <<blocks, current_speech, start_time, end_time,
                       duration, speaker, speaker_map, last_line>> ]_vars

C4_Witness ==
    /\ Len(captions) = 3
    /\ Lines[2] = Lines[1]
    /\ captions[2].start # captions[1].start
    /\ Len(blocks) = 1
    /\ blocks[1].duration = Span(1)
    /\ blocks[1].speech = Lines[1]

\* C5: the duration of every recorded block is the sum of end - start over
\* its own accepted cues (marker cue and continuation cues), not the span from
\* its start to its end.
C5_BlockDuration ==
    blocks # <<>> =>
        LET ls == Lines
            acc == AcceptedIn(ls)
            ms == MarkersIn(ls)
        IN \A k \in 1..Len(blocks) :
               blocks[k].duration = SumSpan(BlockCues(acc, ms, k))

C5_Witness ==
    LET ls == Lines
        acc == AcceptedIn(ls)
        ms == MarkersIn(ls)
    IN \E k \in 1..Len(blocks) :
           /\ Cardinality(BlockCues(acc, ms, k)) >= 2
           /\ blocks[k].duration #
                  TimeOfDay(blocks[k].end) - TimeOfDay(blocks[k].start)

\* C6: in infer mode a label that is not yet a key of the map resolves to a
\* known speaker no farther from it, in edit distance, than any other.
C6_ClosestMatch ==
    \A e \in Matched :
        LET ds == Dists(resolved[e].query)
        IN \E i \in Nearest(ds) : known_speakers[i] = resolved[e].result

C6_Witness ==
    \E e \in Matched :
        /\ resolved[e].query = <<"s", "m", "t", "h">>
        /\ resolved[e].result = S_smith
        /\ S_jones \in KnownSet

\* C7 as stated: among the known speakers at the minimum distance the one
\* that comes first in the list is returned.
C7_FirstInListWins ==
    \A e \in Matched :
        LET near == Nearest(Dists(resolved[e].query))
        IN \E i \in near :
               /\ known_speakers[i] = resolved[e].result
               /\ \A j \in near : i <= j

\* C7 amended: among the known speakers at the minimum distance the one
\* that is least in Python's string order is returned, whatever the order of
\* the list.
C7_LeastStringWins ==
    \A e \in Matched :
        LET near == Nearest(Dists(resolved[e].query))
        IN \E i \in near :
               /\ known_speakers[i] = resolved[e].result
               /\ \A j \in near :
                      ~StrLess(known_speakers[j], known_speakers[i])

C7_Witness ==
    \E e \in Matched :
        /\ {1, 2} \subseteq Nearest(Dists(resolved[e].query))
        /\ resolved[e].result = known_speakers[2]

\* C8: in infer mode the map only grows and its values never change; a label
\* that is already a key is answered from the map, with the value of its
\* first resolution and without a distance computation.
C8_Memoization ==
    [][ ~no_infer_speakers =>
          /\ \A k \in DOMAIN speaker_map :
                 k \in DOMAIN speaker_map' /\ speaker_map'[k] = speaker_map[k]
          /\ \A n \in (Len(resolved) + 1)..Len(resolved') :
                 /\ resolved'[n].matched
                        <=> resolved'[n].query \notin DOMAIN speaker_map
                 /\ resolved'[n].query \in DOMAIN speaker_map
                        => resolved'[n].result
                               = speaker_map[resolved'[n].query]
                 /\ \A f \in 1..Len(resolved) :
                        resolved[f].query = resolved'[n].query
                            => resolved[f].result = resolved'[n].result
                 /\ speaker_map'[resolved'[n].query] = resolved'[n].result
      ]_vars

C8_Witness ==
    /\ ~no_infer_speakers
    /\ \E f, n \in 1..Len(resolved) :
          /\ f < n
          /\ resolved[f].query = resolved[n].query
          /\ resolved[f].query \notin KnownSet
          /\ resolved[f].matched
          /\ ~resolved[n].matched
          /\ resolved[n].result = resolved[f].result

\* C9: with inference disabled every label is returned unchanged, the map
\* stays the seeded identity map, and a block whose marker line has a colon
\* carries the trimmed, lowercased label itself.
C9_NoInferPassthrough ==
    no_infer_speakers =>
        /\ speaker_map = SeedMap(known_speakers)
        /\ pc = "done" => returned[2] = SeedMap(known_speakers)
        /\ \A e \in 1..Len(resolved) :
               resolved[e].result = resolved[e].query /\ ~resolved[e].matched
        /\ blocks # <<>> =>
               LET ls == Lines
                   ms == MarkersIn(ls)
               IN \A k \in 1..Len(blocks) :
                      Contains(ls[ms[k]], ":")
                          => blocks[k].speaker = LabelOf(ls[ms[k]])

C9_Witness ==
    /\ no_infer_speakers
    /\ pc = "done"
    /\ \E k \in 1..Len(returned[1]) :
           returned[1][k].speaker = <<"s", "m", "t", "h">>

\* C10: the speaker of a block is decided by its marker line: with a colon,
\* the resolver was called once for that cue, with the trimmed, lowercased
\* text between ">>" and the first colon, and its answer is the speaker;
\* without, the speaker is UNKNOWN and the resolver was not called.  Later
\* continuation lines do not change it.
C10_SpeakerDetermination ==
    LET ls == Lines
        ms == MarkersIn(ls)
    IN \A k \in 1..Len(ms) :
           LET calls == {e \in 1..Len(resolved) : resolved[e].idx = ms[k]}
           IN IF Contains(ls[ms[k]], ":")
              THEN /\ Cardinality(calls) = 1
                   /\ \A e \in calls :
                          /\ resolved[e].query = LabelOf(ls[ms[k]])
                          /\ resolved[e].result = SpeakerOfMarker(k)
              ELSE /\ SpeakerOfMarker(k) = UNKNOWN_SPEAKER
                   /\ calls = {}

C10_Witness ==
    LET ls == Lines IN
    /\ Len(ls) = 3
    /\ MarkersIn(ls) = <<1, 2>>
    /\ AcceptedIn(ls) = {1, 2, 3}
    /\ ~Contains(ls[1], ":")
    /\ blocks[1].speaker = UNKNOWN_SPEAKER
    /\ Contains(ls[2], "J")
    /\ LabelOf(ls[2]) = S_jones
    /\ speaker = S_jones
    /\ current_speech = JoinLines(ls, 2, 3)

\* C11: an accepted line without ">>" that comes before every marker line
\* is in no returned block: each returned block starts at its own marker cue
\* and its end, duration and speech come from its own cues alone; the
\* transcript is made of those speeches.
C11_PreMarkerDropped ==
    pc = "done" =>
        LET ls == Lines
            acc == AcceptedIn(ls)
            ms == MarkersIn(ls)
            pre == {i \in acc : \A k \in 1..Len(ms) : i < ms[k]}
        IN pre # {} =>
             /\ Len(returned[1]) <= Len(ms)
             /\ \A k \in 1..Len(returned[1]) :
                    LET cues == BlockCues(acc, ms, k)
                    IN /\ cues \cap pre = {}
                       /\ returned[1][k].start = captions[ms[k]].start
                       /\ returned[1][k].end = captions[LastOf(cues)].end
                       /\ returned[1][k].duration = SumSpan(cues)
                       /\ returned[1][k].speech = JoinAt(ls, cues)
             /\ get_transcript(returned[1])
                    = SpeechLines(ls, acc, ms, Len(returned[1]))

C11_Witness ==
    /\ pc = "done"
    /\ Len(captions) = 3
    /\ AcceptedIn(Lines) = {1, 2, 3}
    /\ MarkersIn(Lines) = <<2, 3>>
    /\ Lines[1] # <<>>
    /\ Len(returned[1]) = 1
    /\ returned[1][1].speech = Lines[2]
    /\ returned[1][1].duration = Span(2)

\* C14: a cue is discarded exactly when its normalised line equals that of
\* the cue just before it (the empty string for the first cue): last_line is
\* always the line of the cue processed last, a duplicate changes nothing,
\* any other cue is taken in.
C14_AdjacentOnly ==
    [][ Len(captions') = Len(captions) + 1 =>
          LET line == Normalize(captions'[Len(captions')].text)
              prev == IF captions = <<>> THEN <<>>
                      ELSE Normalize(captions[Len(captions)].text)
              cue == captions'[Len(captions')]
              d == TimeOfDay(cue.end) - TimeOfDay(cue.start)
          IN /\ last_line = prev
             /\ last_line' = line
             /\ line = prev =>
                    UNCHANGED <<blocks, current_speech, start_time, end_time,
                                duration, speaker, speaker_map>>
             /\ line # prev =>
                    /\ end_time' = captions'[Len(captions')].end
                    /\ IF StartsWith(line, <<">", ">">>)
                       THEN current_speech' = line /\ duration' = d
                       ELSE /\ current_speech'
                                  = current_speech \o <<" ">> \o line
                            /\ duration' = duration + d
      ]_vars

C14_Witness ==
    /\ Len(captions) = 3
    /\ Lines[3] = Lines[1]
    /\ Lines[2] # Lines[1]
    /\ ~StartsWith(Lines[3], <<">", ">">>)
    /\ current_speech = JoinLines(Lines, 2, 3)
    /\ duration = Span(2) + Span(3)

\* C15: a recorded block starts at the start of its marker cue, ends at the
\* end of its last accepted cue, and its speech is the marker line followed
\* by a space and the line of each accepted continuation cue, in order.
C15_BlockComposition ==
    blocks # <<>> =>
        LET ls == Lines
            acc == AcceptedIn(ls)
            ms == MarkersIn(ls)
        IN \A k \in 1..Len(blocks) :
               LET cues == BlockCues(acc, ms, k)
               IN /\ blocks[k].start = captions[ms[k]].start
                  /\ blocks[k].end = captions[LastOf(cues)].end
                  /\ blocks[k].speech = JoinAt(ls, cues)

C15_Witness ==
    /\ Len(captions) = 3
    /\ AcceptedIn(Lines) = {1, 2, 3}
    /\ MarkersIn(Lines) = <<1, 3>>
    /\ captions[1].end # captions[2].end
    /\ blocks = << Block(captions[1].start, captions[2].end,
                         Span(1) + Span(2), blocks[1].speaker,
                         Lines[1] \o <<" ">> \o Lines[2]) >>

\* C16: the block list only grows at its end, by one block per step at most,
\* and only when an accepted marker line arrives while a block is active; the
\* i-th block belongs to the i-th accepted marker line.
C16_AppendOnly ==
    [][ /\ \/ blocks' = blocks
           \/ /\ Len(blocks') = Len(blocks) + 1
              /\ SubSeq(blocks', 1, Len(blocks)) = blocks
              /\ start_time # None
              /\ Len(captions') = Len(captions) + 1
              /\ Len(MarkersIn(Lines')) = Len(MarkersIn(Lines)) + 1
        /\ blocks' # <<>> =>
              LET ls == Lines'
                  ms == MarkersIn(ls)
              IN /\ Len(blocks') <= Len(ms)
                 /\ \A i \in 1..Len(blocks') :
                        /\ blocks'[i].start = captions'[ms[i]].start
                        /\ StartsWith(blocks'[i].speech, ls[ms[i]])
      ]_vars

C16_Witness ==
    /\ Len(blocks) = 2
    /\ blocks[1].speech # blocks[2].speech
    /\ blocks[1].start # blocks[2].start
    /\ MarkersIn(Lines) = <<1, 2, 3>>

\* C17: in infer mode, the known speakers including UNKNOWN, the current
\* speaker, the speaker of every recorded block and every value of the map
\* are known speakers.
C17_SpeakersAreKnown ==
    (~no_infer_speakers /\ UNKNOWN_SPEAKER \in KnownSet) =>
        /\ speaker \in KnownSet
        /\ \A k \in 1..Len(blocks) : blocks[k].speaker \in KnownSet
        /\ \A q \in DOMAIN speaker_map : speaker_map[q] \in KnownSet

C17_Witness ==
    /\ ~no_infer_speakers
    /\ UNKNOWN_SPEAKER \in KnownSet
    /\ Len(captions) = 3
    /\ Len(blocks) = 1
    /\ MarkersIn(Lines) = <<1, 3>>
    /\ Contains(Lines[1], ":")
    /\ LabelOf(Lines[1]) = <<"s", "m", "t", "h">>
    /\ blocks[1].speaker = S_smith
    /\ speaker = UNKNOWN_SPEAKER

----------------------------------------------------------------------------
(* The claims about preprocess, restated over the text of the file *)

\* The places (1-based) of the text where a line begins.
LineStarts(text) ==
    {p \in 1..Len(text) : p = 1 \/ text[p - 1] = "\n"}

\* HH:MM:SS.mmm, d standing for a digit.
TimestampShape ==
    <<"d", "d", ":", "d", "d", ":", "d", "d", ".", "d", "d", "d">>

\* The text carries a strict HH:MM:SS.mmm timestamp at place p: digits 0 to 9
\* around the colons and the full stop.
TimestampAt(text, p) ==
    /\ p + Len(TimestampShape) - 1 <= Len(text)
    /\ \A i \in 1..Len(TimestampShape) :
           IF TimestampShape[i] = "d"
           THEN text[p + i - 1] \in {"0", "1", "2", "3", "4", "5", "6", "7", "8", "9"}
           ELSE text[p + i - 1] = TimestampShape[i]

\* The places where a line begins with a timestamp.
TimestampLines(text) ==
    {p \in LineStarts(text) : TimestampAt(text, p)}

\* C12: preprocess raises exactly when no line of the input begins with a
\* strict HH:MM:SS.mmm timestamp, and then it returns no text: a call that
\* has raised read a file without such a line and has no output, a call that
\* has returned read a file with one, and a call still in its loop has not
\* read past one.
C12_FailsIffNoTimestamp ==
    LET ts == TimestampLines(fp_text)
    IN /\ pp_pc = "raised" => ts = {} /\ pp_out = None
       /\ pp_pc = "done" => ts # {} /\ pp_out # None
       /\ pp_pc = "loop" => pp_out = None /\ \A p \in ts : p > fp_pos

\* C18: when some line begins with a strict HH:MM:SS.mmm timestamp,
\* preprocess returns "WEBVTT\r\n" followed by the input from the beginning of
\* the first such line to the end of the input, unchanged.
C18_HeaderRepair ==
    LET ts == TimestampLines(fp_text)
        first == CHOOSE p \in ts : \A q \in ts : p <= q
    IN ts # {} =>
           /\ pp_pc # "raised"
           /\ pp_pc = "done" =>
                  pp_out = <<"W", "E", "B", "V", "T", "T", "\r", "\n">>
                               \o SubSeq(fp_text, first, Len(fp_text))

----------------------------------------------------------------------------
(* The claim about parse_new_captions *)

\* The name is that of a caption file.
IsCaptionFile(name) ==
    Len(name) >= 4 /\ name[Len(name) - 3] = "." /\ name[Len(name) - 2] = "v"
                   /\ name[Len(name) - 1] = "t" /\ name[Len(name)] = "t"

\* The name of the transcript of a caption file.
TranscriptName(name) ==
    [i \in 1..Len(name) |->
        IF i = Len(name) - 2 THEN "t" ELSE IF i = Len(name) - 1 THEN "x" ELSE name[i]]

\* The entries the loop has dealt with.
Processed == {src_entries[i] : i \in 1..pn_next}

\* The files written so far.
WrittenFiles == {written[i].file : i \in 1..Len(written)}

\* C13: a caption file whose preprocessing or cue parsing fails gets no
\* transcript file, its failure is logged, and the loop goes on: the call ends
\* only after the whole listing, and every other caption file without an
\* existing transcript has been parsed and its transcript written once.
C13_FailureSkipsOnlyThatFile ==
    /\ pn_pc = "done" => pn_next = Len(src_entries)
    /\ \A name \in Processed :
           IsCaptionFile(name) /\ TranscriptName(name) \notin existing =>
               IF name \in {F_b, F_c}
               THEN /\ TranscriptName(name) \notin WrittenFiles
                    /\ TranscriptName(name) \notin transcripts
                    /\ name \in warnings
               ELSE /\ Cardinality({i \in 1..Len(written) :
                                       written[i].file = TranscriptName(name)}) = 1
                    /\ \A i \in 1..Len(written) :
                           written[i].file = TranscriptName(name) =>
                               written[i].content = <<"transcript", name>>
                    /\ TranscriptName(name) \in transcripts
                    /\ name \notin warnings
    /\ \A name \in Processed :
           /\ ~IsCaptionFile(name) => name \notin warnings
           /\ IsCaptionFile(name) /\ TranscriptName(name) \in existing =>
                  name \notin warnings /\ TranscriptName(name) \notin WrittenFiles

\* The call ended after a file failed to parse and a later file of the
\* listing was parsed and written.
C13_Witness ==
    /\ pn_pc = "done"
    /\ \E i, j \in 1..Len(src_entries) :
           /\ i < j
           /\ src_entries[i] \in warnings
           /\ TranscriptName(src_entries[j]) \in WrittenFiles

----------------------------------------------------------------------------
(* The claims about fetch_new_raw_captions *)

\* The ids retrieve_captions_for_vod was called for.
RetrievedIds == {retrieved[i].id : i \in 1..Len(retrieved)}

\* C19: retrieve_captions_for_vod is never called for an id of the initial
\* known set and at most once for any other id; every id it returned for is
\* in the known set, whether its download succeeded or not; the known set,
\* which the call returns, includes the initial set.
C19_RetrieveOncePerNewVod ==
    /\ RetrievedIds \cap initial_vods = {}
    /\ \A i, j \in 1..Len(retrieved) :
           retrieved[i].id = retrieved[j].id => i = j
    /\ \A i \in 1..Len(retrieved) :
           retrieved[i].returned => retrieved[i].id \in known_vods
    /\ initial_vods \subseteq known_vods

\* The call returned after listing a VOD of the initial set, retrieving one
\* whose download failed and one whose download succeeded, over two pages
\* or more.
C19_Witness ==
    /\ f_pc = "done"
    /\ Len(requests) >= 2
    /\ initial_vods # {}
    /\ \E i, j \in 1..Len(retrieved) :
           /\ retrieved[i].returned /\ ~retrieved[i].downloaded
           /\ retrieved[j].returned /\ retrieved[j].downloaded
    /\ initial_vods \cup RetrievedIds = known_vods

\* C20: with a constant count the pagination terminates; unless a request or
\* a retrieval fails it requests the pages 0, 1, ..., k in this order, where k
\* is the first page with (k + 1) * 100 > count, floor(count / 100) + 1 pages
\* in all.
C20_PaginationTerminates ==
    /\ [](/\ requests = [i \in 1..Len(requests) |-> i - 1]
          /\ \A i \in 1..(Len(requests) - 1) : i * 100 <= count
          /\ f_pc = "done" =>
                 /\ Len(requests) * 100 > count
                 /\ Len(requests) = (count \div 100) + 1)
    /\ <>(f_pc \in {"done", "raised"})

\* The call returned with a count that is a multiple of the page size, after
\* one page more than count / 100.
C20_Witness ==
    /\ f_pc = "done"
    /\ count = 2 * 100
    /\ requests = <<0, 1, 2>>

====
